---------------------------- MODULE Spec2Model ----------------------------
(***************************************************************************)
(* Model of Project-2.py: the red-black tree index (RBNode, RedBlackTree)  *)
(* and the Huffman builder (HuffmanNode, build_huffman_tree,               *)
(* build_huffman_codes).                                                   *)
(*                                                                         *)
(* Objects live in arenas: an RBNode is an index into the sequences key,   *)
(* color, left, right and parent, a HuffmanNode an index into hnodes, and  *)
(* None is the index 0.  Indices are handed out in creation order, so the  *)
(* index of a node is also its age.  Strings are sequences of characters;  *)
(* a digit character is written as the digit itself.                       *)
(***************************************************************************)
EXTENDS Integers, Sequences, FiniteSets, TLC

VARIABLES
    \* ---- RedBlackTree ----
    key, color, left, right, parent,   \* RBNode fields, one entry per node
    root,                              \* RedBlackTree.root
    z,                                 \* insert_fixup's local z
    pc,                                \* position of the running call
    inserted,                          \* the arguments of the insert calls so far
    vstack, visited, out,              \* visualize: pending calls, visited set, printed lines
    \* ---- Huffman ----
    freq,                              \* the frequency table, in dict insertion order
    hnodes,                            \* the HuffmanNode objects
    heap, step,                        \* build_huffman_tree's locals
    hroot,                             \* the tree build_huffman_tree returned
    codes,                             \* the dict build_huffman_codes returned
    hpc                                \* position of the Huffman run

rbvars == <<key, color, left, right, parent, root, z, pc, inserted, vstack, visited, out>>
hvars  == <<freq, hnodes, heap, step, hroot, codes, hpc>>
vars   == <<key, color, left, right, parent, root, z, pc, inserted, vstack, visited, out,
            freq, hnodes, heap, step, hroot, codes, hpc>>

None == 0

\* ------------------------------ bounds ---------------------------------
MaxNodes    == 8    \* insert calls per run
MaxVisNodes == 4    \* visualize is started on trees of at most this many nodes
MaxSyms     == 4    \* entries of a frequency table
MaxFreq     == 3    \* largest count in a frequency table

\* The tokens handed to insert: the strings "10", "20", "30".
Keys == {<<1, 0>>, <<2, 0>>, <<3, 0>>}

\* ------------------------------ strings --------------------------------
\* Python's < on str: lexicographic by character, a proper prefix is smaller.
RECURSIVE StrLess(_, _)
StrLess(a, b) ==
    IF b = <<>> THEN FALSE
    ELSE IF a = <<>> THEN TRUE
    ELSE IF Head(a) < Head(b) THEN TRUE
    ELSE IF Head(a) > Head(b) THEN FALSE
    ELSE StrLess(Tail(a), Tail(b))

\* str(key): the keys are tokens, which are str objects already (main builds
\* them with an f-string), and str() of a str is that same string.
Str(k) == k

\* ------------------------------ rotations ------------------------------
\* A rotation works on the link fields and the root; T is the record
\* [left, right, parent, root] it reads and the result is what it leaves.
Links == [left |-> left, right |-> right, parent |-> parent, root |-> root]

left_rotate_drop(x, T) ==
    LET y == T.right[x] IN
    IF y = None THEN T
    ELSE
      LET yl == T.left[y]
          xp == T.parent[x]
          R1 == [T.right EXCEPT ![x] = None]
          P1 == IF yl # None THEN [T.parent EXCEPT ![yl] = x] ELSE T.parent
          P2 == [P1 EXCEPT ![y] = xp]
          rt == IF xp = None THEN y ELSE T.root
          L1 == IF xp # None /\ x = T.left[xp] THEN [T.left EXCEPT ![xp] = y] ELSE T.left
          R2 == IF xp # None /\ x # T.left[xp] THEN [R1 EXCEPT ![xp] = y] ELSE R1
          L2 == [L1 EXCEPT ![y] = x]
          P3 == [P2 EXCEPT ![x] = y]
      IN [left |-> L2, right |-> R2, parent |-> P3, root |-> rt]

left_rotate_noparent(x, T) ==
    LET y == T.right[x] IN
    IF y = None THEN T
    ELSE
      LET yl == T.left[y]
          xp == T.parent[x]
          R1 == [T.right EXCEPT ![x] = yl]
          P2 == [T.parent EXCEPT ![y] = xp]
          rt == IF xp = None THEN y ELSE T.root
          L1 == IF xp # None /\ x = T.left[xp] THEN [T.left EXCEPT ![xp] = y] ELSE T.left
          R2 == IF xp # None /\ x # T.left[xp] THEN [R1 EXCEPT ![xp] = y] ELSE R1
          L2 == [L1 EXCEPT ![y] = x]
          P3 == [P2 EXCEPT ![x] = y]
      IN [left |-> L2, right |-> R2, parent |-> P3, root |-> rt]

left_rotate(x, T) ==
    LET y == T.right[x] IN
    IF y = None THEN T                                                  \* if not y: return
    ELSE
      LET yl == T.left[y]
          xp == T.parent[x]
          R1 == [T.right EXCEPT ![x] = yl]                              \* x.right = y.left
          P1 == IF yl # None THEN [T.parent EXCEPT ![yl] = x] ELSE T.parent
          P2 == [P1 EXCEPT ![y] = xp]                                   \* y.parent = x.parent
          rt == IF xp = None THEN y ELSE T.root                         \* self.root = y
          L1 == IF xp # None /\ x = T.left[xp] THEN [T.left EXCEPT ![xp] = y] ELSE T.left
          R2 == IF xp # None /\ x # T.left[xp] THEN [R1 EXCEPT ![xp] = y] ELSE R1
          L2 == [L1 EXCEPT ![y] = x]                                    \* y.left = x
          P3 == [P2 EXCEPT ![x] = y]                                    \* x.parent = y
      IN [left |-> L2, right |-> R2, parent |-> P3, root |-> rt]

right_rotate(y, T) ==
    LET x == T.left[y] IN
    IF x = None THEN T                                                  \* if not x: return
    ELSE
      LET xr == T.right[x]
          yp == T.parent[y]
          L1 == [T.left EXCEPT ![y] = xr]                               \* y.left = x.right
          P1 == IF xr # None THEN [T.parent EXCEPT ![xr] = y] ELSE T.parent
          P2 == [P1 EXCEPT ![x] = yp]                                   \* x.parent = y.parent
          rt == IF yp = None THEN x ELSE T.root                         \* self.root = x
          R1 == IF yp # None /\ y = T.right[yp] THEN [T.right EXCEPT ![yp] = x] ELSE T.right
          L2 == IF yp # None /\ y # T.right[yp] THEN [L1 EXCEPT ![yp] = x] ELSE L1
          R2 == [R1 EXCEPT ![x] = y]                                    \* x.right = y
          P3 == [P2 EXCEPT ![y] = x]                                    \* y.parent = x
      IN [left |-> L2, right |-> R2, parent |-> P3, root |-> rt]

\* ------------------------------ insert ---------------------------------
\* The comparison that sends the descent, and then the link, to the left.
GoesLeftOrEqual(k, x) == ~StrLess(key[x], k)

GoesLeft(k, x) == StrLess(k, key[x])

\* while x: y = x; x = x.left if key < x.key else x.right
RECURSIVE Descend(_, _, _)
Descend(k, x, y) ==
    IF x = None THEN y
    ELSE Descend(k, IF GoesLeft(k, x) THEN left[x] ELSE right[x], x)

\* elif key < y.key: y.left = z   else: y.right = z
LinksLeftReversed(k, y) == ~StrLess(k, key[y])

LinksLeft(k, y) == StrLess(k, key[y])

\* insert(key) up to the call of insert_fixup(z).
Insert(k) ==
    /\ pc = "idle"
    /\ Len(key) < MaxNodes
    /\ LET zn == Len(key) + 1
           y  == Descend(k, root, None)
       IN /\ key'    = Append(key, Str(k))
          /\ color'  = Append(color, "red")
          /\ parent' = Append(parent, y)
          /\ root'   = IF y = None THEN zn ELSE root
          /\ left'   = IF y # None /\ LinksLeft(k, y)
                       THEN [Append(left, None) EXCEPT ![y] = zn]
                       ELSE Append(left, None)
          /\ right'  = IF y # None /\ ~LinksLeft(k, y)
                       THEN [Append(right, None) EXCEPT ![y] = zn]
                       ELSE Append(right, None)
          /\ z' = zn
    /\ inserted' = Append(inserted, k)
    /\ pc' = "fixup"
    /\ UNCHANGED <<vstack, visited, out>>
    /\ UNCHANGED hvars

\* ------------------------------ insert_fixup ---------------------------
\* The loop runs another iteration: the while condition holds and the
\* break of its first line is not taken.
Iterates ==
    /\ pc = "fixup"
    /\ parent[z] # None
    /\ color[parent[z]] = "red"
    /\ parent[parent[z]] # None

OnLeft  == parent[z] = left[parent[parent[z]]]
UncleR  == right[parent[parent[z]]]
UncleL  == left[parent[parent[z]]]
IsRed(y) == y # None /\ color[y] = "red"

\* Uncle red: recolour and continue from the grandparent.
Recolour(y) ==
    LET p == parent[z]
        g == parent[parent[z]]
    IN /\ color' = [color EXCEPT ![p] = "black", ![y] = "black", ![g] = "red"]
       /\ z' = g
       /\ pc' = "fixup"
       /\ UNCHANGED <<key, left, right, parent, root, inserted, vstack, visited, out>>
       /\ UNCHANGED hvars

LeftRecolour ==
    /\ Iterates /\ OnLeft /\ IsRed(UncleR)
    /\ Recolour(UncleR)

RightRecolour ==
    /\ Iterates /\ ~OnLeft /\ IsRed(UncleL)
    /\ Recolour(UncleL)

\* z = z.parent; self.left_rotate(z)   (resp. right_rotate); the state is
\* the one right after the rotation returned.
LeftInner ==
    /\ Iterates /\ OnLeft /\ ~IsRed(UncleR)
    /\ z = right[parent[z]]
    /\ LET T == left_rotate(parent[z], Links)
       IN /\ left' = T.left /\ right' = T.right /\ parent' = T.parent /\ root' = T.root
    /\ z' = parent[z]
    /\ pc' = "left_outer"
    /\ UNCHANGED <<key, color, inserted, vstack, visited, out>>
    /\ UNCHANGED hvars

RightInner ==
    /\ Iterates /\ ~OnLeft /\ ~IsRed(UncleL)
    /\ z = left[parent[z]]
    /\ LET T == right_rotate(parent[z], Links)
       IN /\ left' = T.left /\ right' = T.right /\ parent' = T.parent /\ root' = T.root
    /\ z' = parent[z]
    /\ pc' = "right_outer"
    /\ UNCHANGED <<key, color, inserted, vstack, visited, out>>
    /\ UNCHANGED hvars

\* z.parent.color = "black"; z.parent.parent.color = "red"; rotate the grandparent.
OuterColoursSame ==
    [color EXCEPT ![parent[z]] = "black"]

OuterColours ==
    [color EXCEPT ![parent[z]] = "black", ![parent[parent[z]]] = "red"]

AtLeftOuter ==
    \/ pc = "left_outer"
    \/ Iterates /\ OnLeft /\ ~IsRed(UncleR) /\ z # right[parent[z]]

AtRightOuter ==
    \/ pc = "right_outer"
    \/ Iterates /\ ~OnLeft /\ ~IsRed(UncleL) /\ z # left[parent[z]]

LeftOuter ==
    /\ AtLeftOuter
    /\ color' = OuterColours
    /\ LET T == right_rotate(parent[parent[z]], Links)
       IN /\ left' = T.left /\ right' = T.right /\ parent' = T.parent /\ root' = T.root
    /\ pc' = "fixup"
    /\ UNCHANGED <<key, z, inserted, vstack, visited, out>>
    /\ UNCHANGED hvars

RightOuter ==
    /\ AtRightOuter
    /\ color' = OuterColours
    /\ LET T == left_rotate(parent[parent[z]], Links)
       IN /\ left' = T.left /\ right' = T.right /\ parent' = T.parent /\ root' = T.root
    /\ pc' = "fixup"
    /\ UNCHANGED <<key, z, inserted, vstack, visited, out>>
    /\ UNCHANGED hvars

\* The loop ends (condition false, or break); the root is coloured black
\* and insert returns.
RootColourKept == color

RootColour == IF root # None THEN [color EXCEPT ![root] = "black"] ELSE color

FixupExit ==
    /\ pc = "fixup"
    /\ ~Iterates
    /\ color' = RootColour
    /\ pc' = "idle"
    /\ UNCHANGED <<key, left, right, parent, root, z, inserted, vstack, visited, out>>
    /\ UNCHANGED hvars

\* ------------------------------ visualize ------------------------------
\* A pending call is its arguments [node, indent, last]; indent is the list
\* of the three-character units appended so far, TRUE for "   ".
VisStart ==
    /\ pc = "idle"
    /\ Len(key) <= MaxVisNodes
    /\ vstack' = <<[node |-> None, indent |-> <<>>, last |-> TRUE]>>
    /\ visited' = {}
    /\ out' = <<>>
    /\ pc' = "vis"
    /\ UNCHANGED <<key, color, left, right, parent, root, z, inserted>>
    /\ UNCHANGED hvars

\* if node is None: node = self.root
Resolved(node) == IF node = None THEN root ELSE node

\* if node is None or id(node) in visited: return
VisReturn ==
    /\ pc = "vis"
    /\ vstack # <<>>
    /\ LET node == Resolved(Head(vstack).node)
       IN node = None \/ node \in visited
    /\ vstack' = Tail(vstack)
    /\ UNCHANGED <<key, color, left, right, parent, root, z, inserted, visited, out, pc>>
    /\ UNCHANGED hvars

VisPrint ==
    /\ pc = "vis"
    /\ vstack # <<>>
    /\ LET f    == Head(vstack)
           node == Resolved(f.node)
           ind  == Append(f.indent, f.last)
       IN /\ node # None /\ node \notin visited
          /\ visited' = visited \cup {node}
          /\ out' = Append(out, [indent |-> f.indent, last |-> f.last,
                                 key |-> key[node], color |-> color[node]])
          /\ vstack' = <<[node |-> left[node],  indent |-> ind, last |-> FALSE],
                         [node |-> right[node], indent |-> ind, last |-> TRUE]>>
                       \o Tail(vstack)
    /\ UNCHANGED <<key, color, left, right, parent, root, z, inserted, pc>>
    /\ UNCHANGED hvars

VisDone ==
    /\ pc = "vis"
    /\ vstack = <<>>
    /\ pc' = "idle"
    /\ visited' = {}
    /\ out' = <<>>
    /\ UNCHANGED <<key, color, left, right, parent, root, z, inserted, vstack>>
    /\ UNCHANGED hvars

\* ------------------------------ Huffman -------------------------------
\* A symbol is named by its position in the frequency table (dict keys are
\* distinct, and iterate in insertion order); the char "" of a merged node
\* is written NoChar.
NoChar == 0

HuffmanNode(char, f, l, r) == [char |-> char, freq |-> f, left |-> l, right |-> r]

\* [HuffmanNode(k, v) for k, v in freq.items()]
Leaves == [i \in 1..Len(freq) |-> HuffmanNode(i, freq[i], None, None)]

\* heap.sort(key=lambda x: x.freq): ascending, and stable.
PlaceBeforeEqual(s, x) ==
    LET k == Cardinality({i \in 1..Len(s) : hnodes[s[i]].freq < hnodes[x].freq})
    IN SubSeq(s, 1, k) \o <<x>> \o SubSeq(s, k + 1, Len(s))

PlaceAfterEqual(s, x) ==
    LET k == Cardinality({i \in 1..Len(s) : hnodes[s[i]].freq <= hnodes[x].freq})
    IN SubSeq(s, 1, k) \o <<x>> \o SubSeq(s, k + 1, Len(s))

RECURSIVE StableSort(_)
StableSort(s) ==
    IF s = <<>> THEN <<>>
    ELSE PlaceAfterEqual(StableSort(SubSeq(s, 1, Len(s) - 1)), s[Len(s)])

Unsorted(s) == s

SortByFreq(s) == StableSort(s)

\* if not freq: raise ValueError
HuffEmpty ==
    /\ hpc = "input"
    /\ Len(freq) = 0
    /\ hpc' = "error"
    /\ UNCHANGED <<freq, hnodes, heap, step, hroot, codes>>
    /\ UNCHANGED rbvars

\* if len(freq) == 1: return HuffmanNode(k, v)
HuffSingle ==
    /\ hpc = "input"
    /\ Len(freq) = 1
    /\ hnodes' = Leaves
    /\ hroot' = 1
    /\ hpc' = "built"
    /\ UNCHANGED <<freq, heap, step, codes>>
    /\ UNCHANGED rbvars

HuffStart ==
    /\ hpc = "input"
    /\ Len(freq) > 1
    /\ hnodes' = Leaves
    /\ heap' = [i \in 1..Len(freq) |-> i]
    /\ step' = 1
    /\ hpc' = "merge"
    /\ UNCHANGED <<freq, hroot, codes>>
    /\ UNCHANGED rbvars

\* One iteration of while len(heap) > 1.
HuffMerge ==
    /\ hpc = "merge"
    /\ Len(heap) > 1
    /\ LET sorted == SortByFreq(heap)
           l == sorted[1]                         \* left = heap.pop(0)
           r == sorted[2]                         \* right = heap.pop(0)
           merged == HuffmanNode(NoChar, hnodes[l].freq + hnodes[r].freq, l, r)
       IN /\ hnodes' = Append(hnodes, merged)
          /\ heap' = Append(SubSeq(sorted, 3, Len(sorted)), Len(hnodes) + 1)
    /\ step' = step + 1
    /\ UNCHANGED <<freq, hroot, codes, hpc>>
    /\ UNCHANGED rbvars

\* return heap[0]
HuffReturn ==
    /\ hpc = "merge"
    /\ Len(heap) <= 1
    /\ hroot' = heap[1]
    /\ hpc' = "built"
    /\ UNCHANGED <<freq, hnodes, heap, step, codes>>
    /\ UNCHANGED rbvars

\* prefix + "0" and prefix + "1"
RightPrefixAsLeft(prefix) == Append(prefix, 0)

LeftPrefix(prefix) == Append(prefix, 0)

RightPrefix(prefix) == Append(prefix, 1)

\* codes[node.char] = prefix if prefix else "0"
SetCode(cs, char, prefix) == (char :> (IF prefix # <<>> THEN prefix ELSE <<0>>)) @@ cs

RECURSIVE build_huffman_codes(_, _, _)
build_huffman_codes(node, prefix, cs) ==
    IF hnodes[node].left = None /\ hnodes[node].right = None
    THEN SetCode(cs, hnodes[node].char, prefix)
    ELSE LET c1 == IF hnodes[node].left # None
                   THEN build_huffman_codes(hnodes[node].left, LeftPrefix(prefix), cs)
                   ELSE cs
         IN IF hnodes[node].right # None
            THEN build_huffman_codes(hnodes[node].right, RightPrefix(prefix), c1)
            ELSE c1

\* codes = build_huffman_codes(root)
HuffCodes ==
    /\ hpc = "built"
    /\ codes' = build_huffman_codes(hroot, <<>>, <<>>)
    /\ hpc' = "done"
    /\ UNCHANGED <<freq, hnodes, heap, step, hroot>>
    /\ UNCHANGED rbvars

\* ------------------------------ specification --------------------------
HuffIdle ==
    /\ freq = <<>> /\ hnodes = <<>> /\ heap = <<>> /\ step = 0
    /\ hroot = None /\ codes = <<>> /\ hpc = "off"

Init ==
    /\ key = <<>> /\ color = <<>> /\ left = <<>> /\ right = <<>> /\ parent = <<>>
    /\ root = None /\ z = None /\ pc = "idle" /\ inserted = <<>>
    /\ vstack = <<>> /\ visited = {} /\ out = <<>>
    /\ HuffIdle

Next ==
    \/ \E k \in Keys : Insert(k)
    \/ LeftRecolour
    \/ RightRecolour
    \/ LeftInner
    \/ RightInner
    \/ LeftOuter
    \/ RightOuter
    \/ FixupExit
    \/ VisStart
    \/ VisReturn
    \/ VisPrint
    \/ VisDone

Spec == Init /\ [][Next]_vars

\* The Huffman run: any frequency table of at most MaxSyms entries with
\* counts up to MaxFreq, then build_huffman_tree and build_huffman_codes.
Tables == UNION {[1..n -> 0..MaxFreq] : n \in 0..MaxSyms}

InitHuff ==
    /\ key = <<>> /\ color = <<>> /\ left = <<>> /\ right = <<>> /\ parent = <<>>
    /\ root = None /\ z = None /\ pc = "off" /\ inserted = <<>>
    /\ vstack = <<>> /\ visited = {} /\ out = <<>>
    /\ freq \in Tables
    /\ hnodes = <<>> /\ heap = <<>> /\ step = 0
    /\ hroot = None /\ codes = <<>> /\ hpc = "input"

NextHuff ==
    \/ HuffEmpty
    \/ HuffSingle
    \/ HuffStart
    \/ HuffMerge
    \/ HuffReturn
    \/ HuffCodes

SpecHuff == InitHuff /\ [][NextHuff]_vars


\* ------------------------------ tree observers -------------------------
Nodes == 1..Len(key)
Fuel  == Len(key) + 1

\* Preorder walk from x through the child links, cut off below depth f.
RECURSIVE PreOrder(_, _)
PreOrder(x, f) ==
    IF x = None \/ f = 0 THEN <<>>
    ELSE <<x>> \o PreOrder(left[x], f - 1) \o PreOrder(right[x], f - 1)

RECURSIVE InOrder(_, _)
InOrder(x, f) ==
    IF x = None \/ f = 0 THEN <<>>
    ELSE InOrder(left[x], f - 1) \o <<x>> \o InOrder(right[x], f - 1)

Range(s) == {s[i] : i \in 1..Len(s)}
Subtree(x) == Range(PreOrder(x, Fuel))

\* The numbers of black nodes met on the downward paths from x to an
\* absent-child position.
RECURSIVE BlackCounts(_, _)
BlackCounts(x, f) ==
    IF x = None \/ f = 0 THEN {0}
    ELSE {c + (IF color[x] = "black" THEN 1 ELSE 0) :
              c \in BlackCounts(left[x], f - 1) \cup BlackCounts(right[x], f - 1)}

Count(s, v) == Cardinality({i \in 1..Len(s) : s[i] = v})
PosIn(s, v) == CHOOSE i \in 1..Len(s) : s[i] = v
Returned == pc = "idle"

\* ------------------------------ claims ---------------------------------
\* C1: after each insert returns the root is black, no red node has a red
\* child, and from every node all downward paths to an absent-child
\* position pass through the same number of black nodes.
C1_RedBlackInvariants ==
    Returned =>
        /\ root # None => color[root] = "black"
        /\ \A x \in Nodes : color[x] = "red" =>
               /\ ~IsRed(left[x])
               /\ ~IsRed(right[x])
        /\ \A x \in Nodes : Cardinality(BlackCounts(x, Fuel)) = 1

\* C1 witness: the eighth insert has returned; the root is no longer the
\* first node (a rotation replaced it) and a red node has two black
\* children (a recolouring pushed red upwards).
C1_Witness ==
    /\ Returned /\ Len(key) >= 8
    /\ root # 1
    /\ \E x \in Nodes :
          /\ color[x] = "red"
          /\ left[x] # None /\ right[x] # None

\* C2: after each insert returns, every key in a node's left subtree is <=
\* the node's key and every key in its right subtree is >= it.
C2_Ordering ==
    Returned =>
        \A x \in Nodes :
            /\ \A l \in Subtree(left[x])  : ~StrLess(key[x], key[l])
            /\ \A r \in Subtree(right[x]) : ~StrLess(key[r], key[x])

\* C2 witness: duplicates were inserted and a rotation has put a key equal
\* to a node's key into that node's left subtree.
C2_Witness ==
    /\ Returned
    /\ \E x \in Nodes : \E l \in Subtree(left[x]) : key[l] = key[x]
    /\ \E x \in Nodes : \E r \in Subtree(right[x]) : StrLess(key[x], key[r])

\* C3: after every completed rotation and every completed insert, each
\* non-root node's parent is exactly the node holding it as a child, and
\* the root has no parent.
C3_ParentConsistency ==
    /\ root # None => parent[root] = None
    /\ \A x \in Nodes :
          /\ x # root => /\ parent[x] # None
                         /\ left[parent[x]] = x \/ right[parent[x]] = x
          /\ left[x]  # None => parent[left[x]] = x
          /\ right[x] # None => parent[right[x]] = x

\* C3 witness: the first rotation of a two-rotation case has just
\* returned, and the node it moved down was handed a subtree by the node
\* it moved up.
C3_Witness ==
    /\ pc \in {"left_outer", "right_outer"}
    /\ parent[z] # None /\ parent[z] # Len(key)
    /\ left[z] # None /\ right[z] # None

\* C6 (as stated): inserting "10", "20", "30" ends with root 20 black and
\* both children black.
C6_AsStated ==
    (Returned /\ inserted = <<<<1, 0>>, <<2, 0>>, <<3, 0>>>>) =>
        /\ root # None
        /\ key[root] = <<2, 0>> /\ color[root] = "black"
        /\ left[root] # None /\ key[left[root]] = <<1, 0>>
        /\ color[left[root]] = "black"
        /\ right[root] # None /\ key[right[root]] = <<3, 0>>
        /\ color[right[root]] = "black"

\* C6 (amended): inserting "10", "20", "30" ends with root 20 black, left
\* child 10 red and right child 30 red, both children leaves.
C6_TenTwentyThirty ==
    (Returned /\ inserted = <<<<1, 0>>, <<2, 0>>, <<3, 0>>>>) =>
        /\ root # None
        /\ key[root] = <<2, 0>> /\ color[root] = "black"
        /\ left[root] # None /\ key[left[root]] = <<1, 0>>
        /\ color[left[root]] = "red"
        /\ right[root] # None /\ key[right[root]] = <<3, 0>>
        /\ color[right[root]] = "red"
        /\ Subtree(root) = {root, left[root], right[root]}

\* C6 witness: the three inserts have returned.
C6_Witness == Returned /\ inserted = <<<<1, 0>>, <<2, 0>>, <<3, 0>>>>

\* The first-inserted node carrying the key of node x.
FirstPeer(x) == CHOOSE i \in Nodes : key[i] = key[x] /\ \A j \in Nodes : key[j] = key[x] => i <= j

\* C7 (as stated): every node whose key equals the key of an earlier node
\* lies in the right subtree of the first-inserted node with that key.
C7_AsStated ==
    Returned =>
        \A x \in Nodes : FirstPeer(x) # x => x \in Subtree(right[FirstPeer(x)])

\* C7 (amended): every node whose key equals the key of an earlier-inserted
\* node comes after that node in the in-order traversal of the tree.
C7_DuplicatesAfter ==
    Returned =>
        LET io == InOrder(root, Fuel) IN
        \A x \in Nodes : \A e \in Nodes :
            (e < x /\ key[e] = key[x]) =>
                /\ Count(io, e) = 1 /\ Count(io, x) = 1
                /\ PosIn(io, e) < PosIn(io, x)

\* C7 witness: a later duplicate sits outside the right subtree of its
\* first-inserted peer, and another one inside it.
C7_Witness ==
    /\ Returned
    /\ \E x \in Nodes : FirstPeer(x) # x /\ x \notin Subtree(right[FirstPeer(x)])
    /\ \E x \in Nodes : FirstPeer(x) # x /\ x \in Subtree(right[FirstPeer(x)])

\* C8: at every step the nodes reachable from the root are exactly the
\* nodes created by the insert calls so far, each reached once, and their
\* keys are the inserted keys, with multiplicity.
C8_NodesConserved ==
    LET w == PreOrder(root, Fuel) IN
    /\ Len(w) = Len(inserted)
    /\ \A x \in Nodes : Count(w, x) = 1
    /\ Len(key) = Len(inserted)
    /\ \A k \in Keys :
          Cardinality({i \in 1..Len(w) : key[w[i]] = Str(k)}) = Count(inserted, k)

\* C8 witness: a rotation at the root of a tree of at least five nodes,
\* holding a duplicate key, has just returned.
C8_Witness ==
    /\ pc = "fixup" /\ Len(key) >= 5
    /\ root # None /\ root # 1 /\ left[root] # None /\ right[root] # None
    /\ \E x \in Nodes : FirstPeer(x) # x

\* C10 (as stated): no call of visualize arrives at a node that is already
\* in the visited set.
C10_AsStated ==
    (pc = "vis" /\ vstack # <<>>) =>
        LET node == Resolved(Head(vstack).node) IN
        node = None \/ node \notin visited


\* ------------------------------ Huffman claims -------------------------
IsPrefix(a, b) == Len(a) <= Len(b) /\ SubSeq(b, 1, Len(a)) = a
Symbols == 1..Len(freq)
Coded == hpc = "done"

\* C4: for every non-empty frequency table every symbol gets a non-empty
\* code and, for every pair of distinct symbols, neither code is a prefix
\* of the other.
C4_PrefixFree ==
    (Coded /\ Len(freq) >= 1) =>
        /\ DOMAIN codes = Symbols
        /\ \A a \in Symbols : Len(codes[a]) >= 1
        /\ \A a \in Symbols : \A b \in Symbols :
              a # b => ~IsPrefix(codes[a], codes[b])

\* C4 witness: codes of different lengths were produced for a table of at
\* least three symbols.
C4_Witness ==
    /\ Coded /\ Len(freq) >= 3
    /\ \E a \in Symbols : \E b \in Symbols : Len(codes[a]) < Len(codes[b])

\* The length assignments a prefix-free binary code on n symbols can have
\* (Kraft: sum of 2^-len <= 1), with lengths up to n.
RECURSIVE KraftSum(_, _, _)
KraftSum(lens, n, i) ==
    IF i = 0 THEN 0 ELSE 2 ^ (n - lens[i]) + KraftSum(lens, n, i - 1)

PrefixFreeLengths ==
    [n \in 1..(MaxSyms + 1) |->
        {lens \in [1..n -> 1..n] : KraftSum(lens, n, n) <= 2 ^ n}]

RECURSIVE Weighted(_, _)
Weighted(lens, i) ==
    IF i = 0 THEN 0 ELSE freq[i] * lens[i] + Weighted(lens, i - 1)

CodeLengths == [a \in Symbols |-> Len(codes[a])]

\* C5: for a table of at least two symbols the total weighted length of
\* the produced codes is the minimum over all prefix-free binary codes.
C5_Optimal ==
    (Coded /\ Len(freq) >= 2) =>
        /\ CodeLengths \in PrefixFreeLengths[Len(freq)]
        /\ \A lens \in PrefixFreeLengths[Len(freq)] :
              Weighted(CodeLengths, Len(freq)) <= Weighted(lens, Len(freq))

\* C5 witness: a table of four symbols with unequal counts whose codes
\* have three different lengths.
C5_Witness ==
    /\ Coded /\ Len(freq) = 4
    /\ \E a \in Symbols : Len(codes[a]) = 1
    /\ \E a \in Symbols : Len(codes[a]) = 3
    /\ \E a \in Symbols : \E b \in Symbols : freq[a] < freq[b]

\* a is removed before b: lower frequency first, and of two candidates of
\* equal frequency the one that entered the collection first.
Before(a, b) ==
    \/ hnodes[a].freq < hnodes[b].freq
    \/ hnodes[a].freq = hnodes[b].freq /\ a < b

\* C9: the leaves enter the collection in table order; every merge step
\* removes the two candidates that come first by (frequency, order of
\* entry), makes the first removed the left child and the second the
\* right child, and places the merged node after all remaining candidates.
C9_TieBreak ==
    [][ /\ (hpc = "input" /\ hpc' = "merge") =>
              /\ heap' = [i \in 1..Len(freq) |-> i]
              /\ \A i \in 1..Len(freq) :
                    hnodes'[i] = [char |-> i, freq |-> freq[i], left |-> None, right |-> None]
        /\ (hpc = "merge" /\ hnodes' # hnodes) =>
              LET m == Len(hnodes')
                  L == hnodes'[m].left
                  R == hnodes'[m].right
                  C == Range(heap)
              IN /\ m = Len(hnodes) + 1
                 /\ L \in C /\ R \in C /\ L # R
                 /\ \A c \in C \ {L} : Before(L, c)
                 /\ \A c \in C \ {L, R} : Before(R, c)
                 /\ hnodes'[m].freq = hnodes[L].freq + hnodes[R].freq
                 /\ Len(heap') = Len(heap) - 1
                 /\ heap'[Len(heap')] = m
                 /\ Range(heap') = (C \ {L, R}) \cup {m}
      ]_vars

\* C9 witness: a merge took two candidates while an equally frequent but
\* later-placed merged node was waiting in the collection.
C9_Witness ==
    /\ hpc \in {"merge", "built", "done"}
    /\ \E m \in 1..Len(hnodes) : \E c \in 1..Len(hnodes) :
          /\ hnodes[m].left # None
          /\ c > Len(freq) /\ c < m
          /\ hnodes[c].freq = hnodes[hnodes[m].right].freq
          /\ \A q \in 1..(m - 1) : hnodes[q].left # c /\ hnodes[q].right # c
          /\ hnodes[m].left # c /\ hnodes[m].right # c

=============================================================================
